---- MODULE Spec2Model ----
(***************************************************************************)
(* Rate limiting and quota tracking of llm-poi-finder:                     *)
(*   backend/app/middleware/rate_limiter.py  TokenBucket, RateLimiter,     *)
(*                                           RateLimitMiddleware           *)
(*   backend/app/main.py                     middleware registration       *)
(*   backend/app/config.py                   Settings, QuotaTracker        *)
(*   backend/app/services/maps_service.py    MapsService                   *)
(*   backend/app/routes/maps.py, chat.py     user_id of the quota          *)
(*                                                                         *)
(* Numbers.  The code computes with Python floats.  The model computes the *)
(* same expressions exactly, over rationals: a bucket whose rate is        *)
(* num/den tokens per second holds its token count multiplied by den, so   *)
(* that "tokens + elapsed * rate" is the integer "tokens + elapsed * num". *)
(* Clock readings (time.time()) are whole seconds, and one call of a       *)
(* handler reads one clock value.                                          *)
(***************************************************************************)
EXTENDS Integers, Sequences, FiniteSets, TLC

VARIABLES
    now,        \* the value time.time() returns
    tb,         \* a TokenBucket used on its own
    tbRet,      \* what the last call on tb returned
    tbRun,      \* how the calls on tb so far are arranged (see TBConsume)
    limiter,    \* the RateLimiter
    ret,        \* what the last call of RateLimiter.is_allowed returned
    burst,      \* per client, its calls so far when they form an opening burst
    span,       \* a span of time over which one client's admissions are counted
    solo,       \* a second RateLimiter, which only the observer calls
    seen,       \* what the observer's last call showed, on limiter and on solo
    middleware, \* the RateLimitMiddleware
    resp,       \* the outcome of the last request dispatched
    quota,      \* the QuotaTracker
    qRet,       \* what the last call on the QuotaTracker returned
    tasks,      \* the requests in flight, each with its position in the code
    running     \* the task the event loop is running (0: none)

bucketVars == <<tb, tbRet, tbRun>>
limiterVars == <<limiter, ret, burst>>
pairVars == <<solo, seen>>
appVars == <<middleware, resp>>
quotaVars == <<quota, qRet>>
taskVars == <<tasks, running>>
vars == <<now, tb, tbRet, tbRun, limiter, ret, burst, span, solo, seen, middleware, resp,
          quota, qRet, tasks, running>>

(***************************************************************************)
(* Bounds of the model                                                     *)
(***************************************************************************)
\* last clock reading of the stand-alone bucket runs
MaxBucketTime == 7
\* largest token amount a call asks for
MaxAmount == 2
\* number of requests in flight together
MaxTasks == 4
\* largest recorded usage, in either direction
MaxUsage == 4

Min(a, b) == IF a <= b THEN a ELSE b

\* the non-negative rational p/q rounded to the nearest integer
IntOfRounded(p, q) == (2 * p + q) \div (2 * q)

\* floor of the non-negative rational p/q (Python int() on a float >= 0)
IntOf(p, q) == p \div q

\* ceiling of the non-negative rational p/q
CeilOf(p, q) == (p + q - 1) \div q

(***************************************************************************)
(* TokenBucket                                                             *)
(*   rate      <<num, den>>: num/den tokens per second                     *)
(*   capacity  in tokens                                                   *)
(*   tokens    in units of 1/den token                                     *)
(***************************************************************************)
Scale(b) == b.rate[2]

\* NewBucket with the bucket created empty
NewBucketEmpty(rate, capacity, t) ==
    [rate |-> rate, capacity |-> capacity, tokens |-> 0, last_update |-> t]

\* TokenBucket.__init__
NewBucket(rate, capacity, t) ==
    [rate |-> rate, capacity |-> capacity,
     tokens |-> capacity * rate[2], last_update |-> t]

\* Refill without the cap at capacity
RefillNoCap(b, t) ==
    [b EXCEPT !.tokens = b.tokens + (t - b.last_update) * b.rate[1],
              !.last_update = t]

\* Refill adding one token per second whatever the rate
RefillUnitRate(b, t) ==
    [b EXCEPT !.tokens = Min(b.capacity * Scale(b), b.tokens + (t - b.last_update) * Scale(b)),
              !.last_update = t]

\* TokenBucket._refill
Refill(b, t) ==
    LET elapsed == t - b.last_update
        tokens_to_add == elapsed * b.rate[1]
    IN  [b EXCEPT !.tokens = Min(b.capacity * Scale(b), b.tokens + tokens_to_add),
                  !.last_update = t]

\* Consume emptying the bucket when it denies
ConsumeDraining(b, tokens, t) ==
    LET r == Refill(b, t)
    IN  IF r.tokens >= tokens * Scale(b)
        THEN [bucket |-> [r EXCEPT !.tokens = r.tokens - tokens * Scale(b)], ok |-> TRUE]
        ELSE [bucket |-> [r EXCEPT !.tokens = 0], ok |-> FALSE]

\* Consume asking for more than the tokens wanted
ConsumeStrict(b, tokens, t) ==
    LET r == Refill(b, t)
    IN  IF r.tokens > tokens * Scale(b)
        THEN [bucket |-> [r EXCEPT !.tokens = r.tokens - tokens * Scale(b)], ok |-> TRUE]
        ELSE [bucket |-> r, ok |-> FALSE]

\* TokenBucket.consume: the bucket after the call and the value returned
Consume(b, tokens, t) ==
    LET r == Refill(b, t)
    IN  IF r.tokens >= tokens * Scale(b)
        THEN [bucket |-> [r EXCEPT !.tokens = r.tokens - tokens * Scale(b)], ok |-> TRUE]
        ELSE [bucket |-> r, ok |-> FALSE]

\* TokenBucket.consume up to its test: the bucket refilled and whether it
\* holds the tokens wanted
ConsumeTest(b, tokens, t) ==
    LET r == Refill(b, t)
    IN  [bucket |-> r, ok |-> r.tokens >= tokens * Scale(b)]

\* TokenBucket.consume after its test passed: the deduction
ConsumeDeduct(b, tokens) ==
    [b EXCEPT !.tokens = b.tokens - tokens * Scale(b)]

\* TimeUntilAvailable computed on the bucket as the last call left it
TimeUntilAvailableStale(b, tokens, t) ==
    IF b.tokens >= tokens * Scale(b)
    THEN [bucket |-> b, value |-> <<0, 1>>]
    ELSE [bucket |-> b, value |-> <<tokens * Scale(b) - b.tokens, b.rate[1]>>]

\* TokenBucket.time_until_available: the bucket after the call and the value
\* returned, the rational value[1]/value[2] seconds
TimeUntilAvailable(b, tokens, t) ==
    LET r == Refill(b, t)
    IN  IF r.tokens >= tokens * Scale(b)
        THEN [bucket |-> r, value |-> <<0, 1>>]
        ELSE [bucket |-> r, value |-> <<tokens * Scale(b) - r.tokens, r.rate[1]>>]

(***************************************************************************)
(* RateLimiter                                                             *)
(***************************************************************************)
\* Settings.rate_limit_requests and Settings.rate_limit_window
rate_limit_requests == 100
rate_limit_window == 3600

\* NewRateLimiter without the burst allowance
NewRateLimiterNoBurst(requests_per_window, window_seconds, bm, t) ==
    LET rpw == IF requests_per_window # 0 THEN requests_per_window ELSE rate_limit_requests
        ws == IF window_seconds # 0 THEN window_seconds ELSE rate_limit_window
    IN  [requests_per_window |-> rpw,
         window_seconds |-> ws,
         rate |-> <<rpw, ws>>,
         capacity |-> rpw,
         buckets |-> <<>>,
         last_cleanup |-> t,
         cleanup_interval |-> 3600]

\* RateLimiter.__init__; burst_multiplier is the rational bm[1]/bm[2], an
\* argument of 0 (or None) selects the setting
NewRateLimiter(requests_per_window, window_seconds, bm, t) ==
    LET rpw == IF requests_per_window # 0 THEN requests_per_window ELSE rate_limit_requests
        ws == IF window_seconds # 0 THEN window_seconds ELSE rate_limit_window
    IN  [requests_per_window |-> rpw,
         window_seconds |-> ws,
         rate |-> <<rpw, ws>>,
         capacity |-> IntOf(rpw * bm[1], bm[2]),
         buckets |-> <<>>,
         last_cleanup |-> t,
         cleanup_interval |-> 3600]

\* a sweep that finds no stale client
StaleClientsNone(L, t) == {}

\* the clients _maybe_cleanup collects for deletion
StaleClients(L, t) ==
    { c \in DOMAIN L.buckets : t - L.buckets[c].last_update > L.cleanup_interval }

\* a sweep that is due only after more than cleanup_interval
CleanupDueLate(L, t) == t - L.last_cleanup > L.cleanup_interval

\* a sweep that is due at every call
CleanupDueAlways(L, t) == TRUE

\* the test of _maybe_cleanup that lets the sweep run
CleanupDue(L, t) == ~(t - L.last_cleanup < L.cleanup_interval)

\* MaybeCleanup deleting the buckets idle for cleanup_interval or longer
MaybeCleanupEager(L, t) ==
    IF t - L.last_cleanup < L.cleanup_interval
    THEN L
    ELSE LET stale_clients == { c \in DOMAIN L.buckets :
                                  t - L.buckets[c].last_update >= L.cleanup_interval }
         IN  [L EXCEPT !.buckets = [c \in (DOMAIN L.buckets) \ stale_clients |-> L.buckets[c]],
                       !.last_cleanup = t]

\* RateLimiter._maybe_cleanup
MaybeCleanup(L, t) ==
    IF ~CleanupDue(L, t)
    THEN L
    ELSE LET stale_clients == StaleClients(L, t)
         IN  [L EXCEPT !.buckets = [c \in (DOMAIN L.buckets) \ stale_clients |-> L.buckets[c]],
                       !.last_cleanup = t]

\* RetryAfter from half the wait
RetryAfterHalf(value) == IntOf(value[1], 2 * value[2]) + 1

\* RetryAfter without the added second
RetryAfterNoGuard(value) == IntOf(value[1], value[2])

\* retry_after of RateLimiter.is_allowed, from the value of time_until_available
RetryAfter(value) == IntOf(value[1], value[2]) + 1

\* a division that raises whenever the rate is below one token per second
DivisionRaisesBelowOne(rate) == rate[1] < rate[2]

\* needed / self.rate raises ZeroDivisionError
DivisionRaises(rate) == rate[1] = 0

\* RateLimiter.is_allowed: the limiter after the call and the pair returned.
\* created, wait and swept are not returned by the code: created tells that
\* the default factory of _buckets built the bucket in this call, wait is the
\* value time_until_available gave, swept the clients _maybe_cleanup deleted.
\* raised tells that the call ended in an exception instead of returning.
IsAllowedOp(L, client_id, t) ==
    LET L1 == MaybeCleanup(L, t)
        created == client_id \notin DOMAIN L1.buckets
        bucket == IF created THEN NewBucket(L1.rate, L1.capacity, t)
                             ELSE L1.buckets[client_id]
        c == Consume(bucket, 1, t)
        u == TimeUntilAvailable(c.bucket, 1, t)
        swept == (DOMAIN L.buckets) \ (DOMAIN L1.buckets)
    IN  IF c.ok
        THEN [limiter |-> [L1 EXCEPT !.buckets = (client_id :> c.bucket) @@ L1.buckets],
              ret |-> [client_id |-> client_id, allowed |-> TRUE, retry_after |-> 0,
                       created |-> created, wait |-> <<0, 1>>, at |-> t,
                       swept |-> swept, raised |-> FALSE]]
        ELSE [limiter |-> [L1 EXCEPT !.buckets = (client_id :> u.bucket) @@ L1.buckets],
              ret |-> [client_id |-> client_id, allowed |-> FALSE,
                       retry_after |-> IF DivisionRaises(u.bucket.rate) THEN 0
                                       ELSE RetryAfter(u.value),
                       created |-> created, wait |-> u.value, at |-> t,
                       swept |-> swept, raised |-> DivisionRaises(u.bucket.rate)]]

(***************************************************************************)
(* RateLimitMiddleware                                                     *)
(* Paths, header values and host names are sequences of characters.        *)
(***************************************************************************)
StartsWith(s, prefix) ==
    /\ Len(prefix) <= Len(s)
    /\ SubSeq(s, 1, Len(prefix)) = prefix

\* str.split(",")[0]
FirstField(s) ==
    LET commas == { i \in 1..Len(s) : s[i] = "," }
    IN  IF commas = {} THEN s
        ELSE SubSeq(s, 1, (CHOOSE i \in commas : \A j \in commas : i <= j) - 1)

\* str.strip()
Strip(s) ==
    LET inked == { i \in 1..Len(s) : s[i] # " " }
    IN  IF inked = {} THEN <<>>
        ELSE SubSeq(s, CHOOSE i \in inked : \A j \in inked : i <= j,
                       CHOOSE i \in inked : \A j \in inked : i >= j)

PathHealth == <<"/", "h", "e", "a", "l", "t", "h">>
PathDocs == <<"/", "d", "o", "c", "s">>
PathOpenapi == <<"/", "o", "p", "e", "n", "a", "p", "i", ".", "j", "s", "o", "n">>
PathRedoc == <<"/", "r", "e", "d", "o", "c">>
PathRoot == <<"/">>
PathChat == <<"/", "a", "p", "i", "/", "c", "h", "a", "t">>
PathPlacesSearch == <<"/", "a", "p", "i", "/", "m", "a", "p", "s", "/",
                      "p", "l", "a", "c", "e", "s", "/", "s", "e", "a", "r", "c", "h">>
PathMapsConfig == <<"/", "a", "p", "i", "/", "m", "a", "p", "s", "/", "c", "o", "n", "f", "i", "g">>
Unknown == <<"u", "n", "k", "n", "o", "w", "n">>

\* exclude_paths handed to add_middleware in main.py
AppExcludePaths == <<PathHealth, PathDocs, PathOpenapi, PathRedoc, PathRoot>>

\* exclude_paths of a middleware built without them
DefaultExcludePaths == <<PathHealth, PathDocs, PathOpenapi, PathRedoc>>

\* RateLimitMiddleware.__init__ with the limiter and exclude_paths given; an
\* empty list (or None) selects the default
NewMiddleware(exclude_paths) ==
    [exclude_paths |-> IF exclude_paths # <<>> THEN exclude_paths ELSE DefaultExcludePaths]

\* RateLimitMiddleware._get_client_id; a request without the header has
\* forwarded = <<>>, which the code treats as it treats an empty header
GetClientId(request) ==
    IF request.forwarded # <<>>
    THEN Strip(FirstField(request.forwarded))
    ELSE IF request.client.present THEN request.client.host ELSE Unknown

\* the test of RateLimitMiddleware.dispatch that skips rate limiting
Excluded(M, path) ==
    \E i \in 1..Len(M.exclude_paths) : StartsWith(path, M.exclude_paths[i])

DigitChars == <<"0", "1", "2", "3", "4", "5", "6", "7", "8", "9">>

\* ToDigits keeping the last digit only
ToDigitsLast(n) == <<DigitChars[(n % 10) + 1]>>

\* str() of an int >= 0, as RateLimitExceeded writes the Retry-After header
RECURSIVE ToDigits(_)
ToDigits(n) ==
    IF n < 10 THEN <<DigitChars[n + 1]>>
    ELSE ToDigits(n \div 10) \o <<DigitChars[(n % 10) + 1]>>

\* RateLimitMiddleware.dispatch: the limiter after the request, what
\* is_allowed returned (rt) and the outcome: checked tells that is_allowed was
\* called, with key client_id; reached that call_next ran the endpoint;
\* status is 429 when RateLimitExceeded was raised, 200 stands for whatever
\* the endpoint answered; retry_after is the Retry-After header (-1: none);
\* retry_after_header is its text (<<>>: none);
\* limit_headers tells that the X-RateLimit-* headers were added.
DispatchOp(M, L, rt, request, t) ==
    IF Excluded(M, request.path)
    THEN [limiter |-> L, ret |-> rt,
          resp |-> [request |-> request, checked |-> FALSE, client_id |-> <<>>,
                    reached |-> TRUE, status |-> 200, retry_after |-> -1,
                    retry_after_header |-> <<>>, limit_headers |-> FALSE]]
    ELSE LET client_id == GetClientId(request)
             r == IsAllowedOp(L, client_id, t)
         IN  IF ~r.ret.allowed
             THEN [limiter |-> r.limiter, ret |-> r.ret,
                   resp |-> [request |-> request, checked |-> TRUE,
                             client_id |-> client_id, reached |-> FALSE,
                             status |-> 429, retry_after |-> r.ret.retry_after,
                             retry_after_header |-> ToDigits(r.ret.retry_after),
                             limit_headers |-> FALSE]]
             ELSE [limiter |-> r.limiter, ret |-> r.ret,
                   resp |-> [request |-> request, checked |-> TRUE,
                             client_id |-> client_id, reached |-> TRUE,
                             status |-> 200, retry_after |-> -1,
                             retry_after_header |-> <<>>, limit_headers |-> TRUE]]

(***************************************************************************)
(* QuotaTracker                                                            *)
(***************************************************************************)
\* Settings.daily_quota_limit
daily_quota_limit == 1000

\* QuotaTracker.__init__
NewQuotaTracker(daily_limit) == [daily_limit |-> daily_limit, usage |-> <<>>]

\* dict.get(user_id, 0) on _usage
UsageOf(Q, user_id) == IF user_id \in DOMAIN Q.usage THEN Q.usage[user_id] ELSE 0

\* QuotaTracker.check_quota: the tracker after the call and the value returned
\* check_quota that still passes at the limit
CheckQuotaLax(Q, user_id) ==
    LET current == UsageOf(Q, user_id)
    IN  [quota |-> Q, value |-> current <= Q.daily_limit]

CheckQuota(Q, user_id) ==
    LET current == UsageOf(Q, user_id)
    IN  [quota |-> Q, value |-> current < Q.daily_limit]

\* QuotaTracker.increment_usage
\* increment_usage that counts every amount twice
IncrementUsageTwice(Q, user_id, amount) ==
    LET current == UsageOf(Q, user_id)
        new_total == current + 2 * amount
    IN  [quota |-> [Q EXCEPT !.usage = (user_id :> new_total) @@ Q.usage],
         value |-> new_total]

IncrementUsage(Q, user_id, amount) ==
    LET current == UsageOf(Q, user_id)
        new_total == current + amount
    IN  [quota |-> [Q EXCEPT !.usage = (user_id :> new_total) @@ Q.usage],
         value |-> new_total]

\* QuotaTracker.get_remaining
GetRemaining(Q, user_id) ==
    LET current == UsageOf(Q, user_id)
        left == Q.daily_limit - current
    IN  [quota |-> Q, value |-> IF left > 0 THEN left ELSE 0]

\* reset_user that forgets every other key
ResetUserOnly(Q, user_id) ==
    [quota |-> [Q EXCEPT !.usage = (user_id :> 0)], value |-> 0]

\* QuotaTracker.reset_user
ResetUser(Q, user_id) ==
    [quota |-> [Q EXCEPT !.usage = (user_id :> 0) @@ Q.usage], value |-> 0]

\* QuotaTracker.reset_all
ResetAll(Q) ==
    [quota |-> [Q EXCEPT !.usage = <<>>], value |-> 0]

(***************************************************************************)
(* States before any call                                                  *)
(***************************************************************************)
NoRet == [op |-> "none", n |-> 0, ok |-> FALSE, value |-> <<0, 1>>, waited |-> -1, nth |-> 0]

NoCall == [client_id |-> <<>>, allowed |-> FALSE, retry_after |-> 0,
           created |-> FALSE, wait |-> <<0, 1>>, at |-> -1, swept |-> {},
           raised |-> FALSE]

NoSpan == [client |-> <<>>, start |-> -1, admitted |-> 0]

NoRequest == [path |-> <<>>, forwarded |-> <<>>, client |-> [present |-> FALSE, host |-> <<>>]]

NoObs == [allowed |-> FALSE, retry_after |-> 0, tokens |-> -1]

NoResp == [request |-> NoRequest, checked |-> FALSE, client_id |-> <<>>, reached |-> FALSE,
           status |-> 0, retry_after |-> -1, retry_after_header |-> <<>>,
           limit_headers |-> FALSE]

NoQuotaCall == [op |-> "none", user_id |-> <<>>, amount |-> 0, value |-> 0,
                before |-> NewQuotaTracker(daily_quota_limit)]

Clients == {<<"A">>, <<"B">>}

\* the parts of the state a specification does not use
IdleBucket ==
    /\ tb = NewBucket(<<1, 1>>, 1, 0)
    /\ tbRet = NoRet
    /\ tbRun = [streak |-> 0, emptiedAt |-> -1]

IdleLimiter ==
    /\ ret = NoCall
    /\ burst = [c \in Clients |-> 0]
    /\ span = NoSpan

IdlePair ==
    /\ solo = limiter
    /\ seen = [main |-> NoObs, solo |-> NoObs]

IdleApp ==
    /\ middleware = NewMiddleware(AppExcludePaths)
    /\ resp = NoResp

IdleQuota ==
    /\ quota = NewQuotaTracker(daily_quota_limit)
    /\ qRet = NoQuotaCall

IdleTasks ==
    /\ tasks = <<>>
    /\ running = 0

\* time.time() moves on by d seconds
Tick(d) ==
    /\ now' = now + d
    /\ UNCHANGED <<bucketVars, limiterVars, span, pairVars, appVars, quotaVars, taskVars>>

(***************************************************************************)
(* A TokenBucket used on its own                                           *)
(***************************************************************************)
\* <<rate, capacity>> of the buckets tried
BucketShapes == { <<<<2, 5>>, 3>>, <<<<1, 3>>, 2>>, <<<<3, 2>>, 1>>, <<<<1, 1>>, 2>> }

\* tbRun.streak: number of calls so far when all of them were consume(1) at
\*   the clock reading of construction, -1 otherwise
\* tbRun.emptiedAt: the clock reading at which a consume took the last
\*   token, when no call has been made on the bucket since, -1 otherwise
InitBucket ==
    /\ now = 0
    /\ \E s \in BucketShapes : tb = NewBucket(s[1], s[2], 0)
    /\ tbRet = NoRet
    /\ tbRun = [streak |-> 0, emptiedAt |-> -1]
    /\ limiter = NewRateLimiter(0, 0, <<3, 2>>, 0)
    /\ IdleLimiter
    /\ IdlePair
    /\ IdleApp
    /\ IdleQuota
    /\ IdleTasks

\* tbRet.waited: seconds since the bucket was emptied (-1: see emptiedAt)
\* tbRet.nth: position of the call in the opening streak (0: not in it)
TBConsume(n) ==
    LET c == Consume(tb, n, now)
        inStreak == /\ n = 1
                    /\ tbRun.streak >= 0
                    /\ tbRun.streak <= tb.capacity
                    /\ now = tb.last_update
    IN  /\ tb' = c.bucket
        /\ tbRet' = [op |-> "consume", n |-> n, ok |-> c.ok, value |-> <<0, 1>>,
                     waited |-> IF tbRun.emptiedAt >= 0 THEN now - tbRun.emptiedAt ELSE -1,
                     nth |-> IF inStreak THEN tbRun.streak + 1 ELSE 0]
        /\ tbRun' = [streak |-> IF inStreak THEN tbRun.streak + 1 ELSE -1,
                     emptiedAt |-> IF c.ok /\ c.bucket.tokens = 0 THEN now ELSE -1]
        /\ UNCHANGED <<now, limiterVars, span, pairVars, appVars, quotaVars, taskVars>>

TBTimeUntilAvailable(n) ==
    LET r == TimeUntilAvailable(tb, n, now)
    IN  /\ tb' = r.bucket
        /\ tbRet' = [op |-> "time_until_available", n |-> n, ok |-> FALSE,
                     value |-> r.value, waited |-> -1, nth |-> 0]
        /\ tbRun' = [streak |-> -1, emptiedAt |-> -1]
        /\ UNCHANGED <<now, limiterVars, span, pairVars, appVars, quotaVars, taskVars>>

NextBucket ==
    \/ \E n \in 1..MaxAmount : TBConsume(n)
    \/ \E n \in 1..MaxAmount : TBTimeUntilAvailable(n)
    \/ \E d \in 1..3 : now + d <= MaxBucketTime /\ Tick(d)

SpecBucket == InitBucket /\ [][NextBucket]_vars

(***************************************************************************)
(* The RateLimiter called by two clients                                   *)
(***************************************************************************)
\* <<requests_per_window, window_seconds, burst_multiplier>> of the limiters tried
LimiterConfigs == { <<2, 5, <<3, 2>>>>, <<2, 3600, <<3, 2>>>>, <<1, 3600, <<2, 1>>>> }

\* the clock readings at which the limiter is called
Instants == {0, 1, 2, 3, 1800, 1801, 3600, 3601, 5400, 5401, 7201}

Init ==
    /\ now = 0
    /\ \E k \in LimiterConfigs : limiter = NewRateLimiter(k[1], k[2], k[3], 0)
    /\ IdleLimiter
    /\ IdleBucket
    /\ IdlePair
    /\ IdleApp
    /\ IdleQuota
    /\ IdleTasks

\* burst[c]: the number of calls c has made, when all of them were made at
\* the clock reading of the limiter's construction (0) and they are at most
\* capacity + 1; -1 otherwise
\* one call of is_allowed on limiter
IsAllowedStep(client_id) ==
    LET r == IsAllowedOp(limiter, client_id, now)
        inBurst == /\ burst[client_id] >= 0
                   /\ burst[client_id] <= limiter.capacity
                   /\ now = 0
    IN  /\ limiter' = r.limiter
        /\ ret' = r.ret
        /\ burst' = [burst EXCEPT ![client_id] = IF inBurst THEN @ + 1 ELSE -1]
        /\ span' = IF span.client = client_id /\ r.ret.allowed
                   THEN [span EXCEPT !.admitted = @ + 1] ELSE span

IsAllowed(client_id) ==
    /\ IsAllowedStep(client_id)
    /\ UNCHANGED <<now, bucketVars, pairVars, appVars, quotaVars, taskVars>>

\* start counting the admissions of client_id from this clock reading on
BeginSpan(client_id) ==
    /\ span' = [client |-> client_id, start |-> now, admitted |-> 0]
    /\ UNCHANGED <<now, bucketVars, limiterVars, pairVars, appVars, quotaVars, taskVars>>

Next ==
    \/ \E c \in Clients : IsAllowed(c)
    \/ \E t \in Instants : t > now /\ Tick(t - now)

Spec == Init /\ [][Next]_vars

(***************************************************************************)
(* The RateLimiter of the example: one opening burst per client            *)
(***************************************************************************)
InitBurst ==
    /\ now = 0
    /\ limiter = NewRateLimiter(100, 3600, <<3, 2>>, 0)
    /\ IdleLimiter
    /\ IdleBucket
    /\ IdlePair
    /\ IdleApp
    /\ IdleQuota
    /\ IdleTasks

NextBurst ==
    \E c \in Clients : burst[c] >= 0 /\ IsAllowed(c)

SpecBurst == InitBurst /\ [][NextBurst]_vars

(***************************************************************************)
(* Admissions counted over a span of time                                  *)
(***************************************************************************)
\* the clock readings of these runs
SpanInstants == {0, 1800, 3600, 3601, 5401}

NextSpan ==
    \/ \E c \in Clients : IsAllowed(c)
    \/ \E c \in Clients : span = NoSpan /\ BeginSpan(c)
    \/ \E t \in SpanInstants : t > now /\ Tick(t - now)

SpecSpan == Init /\ [][NextSpan]_vars

(***************************************************************************)
(* Two runs side by side: limiter serves every client, solo serves the     *)
(* observer alone, at the same clock readings                              *)
(***************************************************************************)
Observer == <<"B">>

Observed(r) ==
    [allowed |-> r.ret.allowed, retry_after |-> r.ret.retry_after,
     tokens |-> r.limiter.buckets[Observer].tokens]

PairIsAllowed(client_id) ==
    LET r == IsAllowedOp(solo, client_id, now)
    IN  /\ IsAllowedStep(client_id)
        /\ IF client_id = Observer
           THEN /\ solo' = r.limiter
                /\ seen' = [main |-> Observed(IsAllowedOp(limiter, client_id, now)),
                            solo |-> Observed(r)]
           ELSE UNCHANGED <<solo, seen>>
        /\ UNCHANGED <<now, bucketVars, appVars, quotaVars, taskVars>>

NextPair ==
    \/ \E c \in Clients : PairIsAllowed(c)
    \/ \E t \in Instants : t > now /\ Tick(t - now)

SpecPair == Init /\ [][NextPair]_vars

(***************************************************************************)
(* The application of main.py: requests through the middleware             *)
(***************************************************************************)
Hosts == {<<"A">>, <<"B">>}

Requests ==
    [path : {PathChat, PathPlacesSearch, PathMapsConfig, PathHealth, PathRoot},
     forwarded : {<<>>, <<"A">>, <<"B", ",", " ", "A">>},
     client : {[present |-> TRUE, host |-> h] : h \in Hosts}
                \cup {[present |-> FALSE, host |-> <<>>]}]

\* rate_limiter and add_middleware of main.py
InitApp ==
    /\ now = 0
    /\ limiter = NewRateLimiter(rate_limit_requests, rate_limit_window, <<3, 2>>, 0)
    /\ middleware = NewMiddleware(AppExcludePaths)
    /\ resp = NoResp
    /\ IdleLimiter
    /\ IdleBucket
    /\ IdlePair
    /\ IdleQuota
    /\ IdleTasks

Dispatch(request) ==
    LET d == DispatchOp(middleware, limiter, ret, request, now)
    IN  /\ limiter' = d.limiter
        /\ ret' = d.ret
        /\ resp' = d.resp
        /\ UNCHANGED <<now, middleware, bucketVars, burst, span, pairVars, quotaVars, taskVars>>

NextApp ==
    \/ \E request \in Requests : Dispatch(request)
    \/ \E t \in Instants : t > now /\ Tick(t - now)

SpecApp == InitApp /\ [][NextApp]_vars

(***************************************************************************)
(* A middleware built with the default exclude_paths                       *)
(***************************************************************************)
MiddlewareConfigs == { <<1, 5, <<1, 1>>>>, <<1, 3600, <<3, 2>>>> }

MiddlewareRequests ==
    [path : {PathChat, PathHealth},
     forwarded : {<<>>, <<" ", "B", ",", " ", "A">>, <<",", "A">>},
     client : {[present |-> TRUE, host |-> <<"A">>], [present |-> FALSE, host |-> <<>>]}]

MiddlewareInstants == {0, 5}

InitMiddleware ==
    /\ now = 0
    /\ \E k \in MiddlewareConfigs : limiter = NewRateLimiter(k[1], k[2], k[3], 0)
    /\ middleware = NewMiddleware(<<>>)
    /\ resp = NoResp
    /\ IdleLimiter
    /\ IdleBucket
    /\ IdlePair
    /\ IdleQuota
    /\ IdleTasks

NextMiddleware ==
    \/ \E request \in MiddlewareRequests : Dispatch(request)
    \/ \E t \in MiddlewareInstants : t > now /\ Tick(t - now)

SpecMiddleware == InitMiddleware /\ [][NextMiddleware]_vars

(***************************************************************************)
(* Requests in flight together on the event loop.  dispatch is a           *)
(* coroutine: the loop runs a task from one await to the next and only     *)
(* there turns to another task.                                            *)
(*   pc "dispatch"   the request has arrived                               *)
(*      "deduct"     consume found the token and is about to take it       *)
(*      "call_next"  admitted, awaiting the endpoint                       *)
(*      "denied"     RateLimitExceeded was raised                          *)
(*      "done"       the response was returned                             *)
(***************************************************************************)
\* await points under a scheduler that may also switch tasks inside consume
AwaitPointsPreemptive == {"call_next", "deduct"}

\* the positions at which dispatch awaits
AwaitPoints == {"call_next"}

Finished == {"denied", "done"}

\* the loop may run task i: it is running already, or the loop is free and
\* the task is new or suspended at an await
MayRun(i) ==
    \/ running = i
    \/ running = 0 /\ tasks[i].pc \in AwaitPoints \cup {"dispatch"}

\* the task running once i has moved to position pc
RunningAfter(i, pc) == IF pc \in AwaitPoints \cup Finished THEN 0 ELSE i

ConcurrentConfigs == { <<2, 5, <<3, 2>>>>, <<1, 3600, <<2, 1>>>> }

InitConcurrent ==
    /\ now = 0
    /\ \E k \in ConcurrentConfigs : limiter = NewRateLimiter(k[1], k[2], k[3], 0)
    /\ tasks \in [1..MaxTasks -> [key : Clients, pc : {"dispatch"}]]
    /\ running = 0
    /\ IdleLimiter
    /\ IdleBucket
    /\ IdlePair
    /\ IdleApp
    /\ IdleQuota

\* dispatch from its start into consume, up to the test of the token count;
\* a request that fails the test is denied
DispatchBegin(i) ==
    LET client_id == tasks[i].key
        L1 == MaybeCleanup(limiter, now)
        bucket == IF client_id \in DOMAIN L1.buckets THEN L1.buckets[client_id]
                  ELSE NewBucket(L1.rate, L1.capacity, now)
        c == ConsumeTest(bucket, 1, now)
        u == TimeUntilAvailable(c.bucket, 1, now)
        pc == IF c.ok THEN "deduct" ELSE "denied"
    IN  /\ tasks[i].pc = "dispatch"
        /\ MayRun(i)
        /\ limiter' = [L1 EXCEPT !.buckets =
                          (client_id :> (IF c.ok THEN c.bucket ELSE u.bucket)) @@ L1.buckets]
        /\ tasks' = [tasks EXCEPT ![i].pc = pc]
        /\ running' = RunningAfter(i, pc)
        /\ UNCHANGED <<now, ret, burst, span, bucketVars, pairVars, appVars, quotaVars>>

\* the deduction in consume, the return of is_allowed and the call of call_next
DispatchDeduct(i) ==
    LET client_id == tasks[i].key
    IN  /\ tasks[i].pc = "deduct"
        /\ MayRun(i)
        /\ limiter' = [limiter EXCEPT !.buckets[client_id] = ConsumeDeduct(@, 1)]
        /\ tasks' = [tasks EXCEPT ![i].pc = "call_next"]
        /\ running' = RunningAfter(i, "call_next")
        /\ UNCHANGED <<now, ret, burst, span, bucketVars, pairVars, appVars, quotaVars>>

\* call_next returns and dispatch returns the response
DispatchEnd(i) ==
    /\ tasks[i].pc = "call_next"
    /\ MayRun(i)
    /\ tasks' = [tasks EXCEPT ![i].pc = "done"]
    /\ running' = RunningAfter(i, "done")
    /\ UNCHANGED <<now, limiterVars, span, bucketVars, pairVars, appVars, quotaVars>>

NextConcurrent ==
    \/ \E i \in 1..MaxTasks : DispatchBegin(i)
    \/ \E i \in 1..MaxTasks : DispatchDeduct(i)
    \/ \E i \in 1..MaxTasks : DispatchEnd(i)

SpecConcurrent == InitConcurrent /\ [][NextConcurrent]_vars

(***************************************************************************)
(* QuotaTracker under every sequence of calls of its interface.  qRet      *)
(* records the last call, its value and the tracker before it.             *)
(***************************************************************************)
QuotaLimits == {1, 3}
Amounts == {-1, 0, 1, 2}

InitQuota ==
    /\ now = 0
    /\ \E daily_limit \in QuotaLimits : quota = NewQuotaTracker(daily_limit)
    /\ qRet = NoQuotaCall
    /\ limiter = NewRateLimiter(rate_limit_requests, rate_limit_window, <<3, 2>>, 0)
    /\ IdleLimiter
    /\ IdleBucket
    /\ IdlePair
    /\ IdleApp
    /\ IdleTasks

QuotaCall(op, user_id, amount, r) ==
    /\ quota' = r.quota
    /\ qRet' = [op |-> op, user_id |-> user_id, amount |-> amount,
                value |-> r.value, before |-> quota]
    /\ UNCHANGED <<now, limiterVars, span, bucketVars, pairVars, appVars, taskVars>>

QCheckQuota(user_id) ==
    QuotaCall("check_quota", user_id, 0, CheckQuota(quota, user_id))

QIncrementUsage(user_id, amount) ==
    /\ UsageOf(quota, user_id) + amount \in (0 - MaxUsage)..MaxUsage
    /\ QuotaCall("increment_usage", user_id, amount, IncrementUsage(quota, user_id, amount))

QGetRemaining(user_id) ==
    QuotaCall("get_remaining", user_id, 0, GetRemaining(quota, user_id))

QResetUser(user_id) ==
    QuotaCall("reset_user", user_id, 0, ResetUser(quota, user_id))

QResetAll ==
    QuotaCall("reset_all", <<>>, 0, ResetAll(quota))

NextQuota ==
    \/ \E user_id \in Clients : QCheckQuota(user_id)
    \/ \E user_id \in Clients, amount \in Amounts : QIncrementUsage(user_id, amount)
    \/ \E user_id \in Clients : QGetRemaining(user_id)
    \/ \E user_id \in Clients : QResetUser(user_id)
    \/ QResetAll

SpecQuota == InitQuota /\ [][NextQuota]_vars

(***************************************************************************)
(* MapsService: MaxTasks requests in flight together on the event loop,    *)
(* all on the one QuotaTracker of the service.  Each method checks the     *)
(* quota, awaits the external call and then counts it; between the check   *)
(* and the count other requests run.  A task is a slot for one request     *)
(* at a time: when its request has returned, the next one of the same      *)
(* caller arrives.  qRet records the request that returned last.           *)
(*   pc "check"  the request has arrived                                   *)
(*      "get"    past _check_quota, awaiting client.get                    *)
(***************************************************************************)
MapsOps == <<"search_places", "get_place_details", "get_directions", "geocode">>

\* what awaiting client.get can end in: a response with status 200 and an
\* accepted body, a response with another status, a response whose body
\* reports an API error, a timeout, another exception
Outcomes == {"ok", "non200", "api_error", "timeout", "exception"}

\* the outcomes in which client.get returns a response
Responded == {"ok", "non200", "api_error"}

MapsLimits == {1, 2}

\* what a method returns: kind tells a SearchResponse, another value or
\* None; quota_remaining is -1 where the code leaves it None
NoneResult == [kind |-> "None", success |-> FALSE, quota_remaining |-> -1]

\* a refusal that counts against the quota
QuotaRefusalCharged(Q, op, user_id) ==
    [quota |-> IncrementUsage(Q, user_id, 1).quota,
     called |-> FALSE,
     result |-> IF op = "search_places"
                THEN [kind |-> "SearchResponse", success |-> FALSE, quota_remaining |-> 0]
                ELSE NoneResult]

\* the return of a method whose _check_quota was false
QuotaRefusal(Q, op, user_id) ==
    [quota |-> Q,
     called |-> FALSE,
     result |-> IF op = "search_places"
                THEN [kind |-> "SearchResponse", success |-> FALSE, quota_remaining |-> 0]
                ELSE NoneResult]

\* the return of a method whose external call ended in outcome, Q being the
\* tracker after the call was counted
MapsResult(Q, op, user_id, outcome) ==
    IF op = "search_places"
    THEN [kind |-> "SearchResponse", success |-> outcome = "ok",
          quota_remaining |-> IF outcome = "ok" THEN GetRemaining(Q, user_id).value
                              ELSE -1]
    ELSE IF outcome = "ok"
         THEN [kind |-> "value", success |-> TRUE, quota_remaining |-> -1]
         ELSE NoneResult

InitMaps ==
    /\ now = 0
    /\ \E daily_limit \in MapsLimits : quota = NewQuotaTracker(daily_limit)
    /\ qRet = NoQuotaCall
    /\ \E user_id \in Clients :
          tasks = [i \in 1..MaxTasks |->
                     [op |-> MapsOps[((i - 1) % Len(MapsOps)) + 1],
                      user_id |-> IF i = 1 THEN user_id ELSE <<"A">>,
                      pc |-> "check"]]
    /\ running = 0
    /\ limiter = NewRateLimiter(rate_limit_requests, rate_limit_window, <<3, 2>>, 0)
    /\ IdleLimiter
    /\ IdleBucket
    /\ IdlePair
    /\ IdleApp

\* a method from its start to its first suspension: refused by
\* _check_quota, or suspended in client.get
MapsBegin(i) ==
    LET user_id == tasks[i].user_id
        c == CheckQuota(quota, user_id)
        refusal == QuotaRefusal(c.quota, tasks[i].op, user_id)
    IN  /\ tasks[i].pc = "check"
        /\ IF c.value
           THEN /\ quota' = c.quota
                /\ tasks' = [tasks EXCEPT ![i].pc = "get"]
                /\ qRet' = qRet
           ELSE /\ quota' = refusal.quota
                /\ tasks' = tasks
                /\ qRet' = [op |-> tasks[i].op, user_id |-> user_id, amount |-> 0,
                            value |-> "refused", before |-> quota,
                            called |-> refusal.called, result |-> refusal.result]
        /\ UNCHANGED <<now, running, limiterVars, span, bucketVars, pairVars, appVars>>

\* client.get ends and the method runs to its return: _increment_quota is
\* the statement after the await, the except clauses come after it
MapsResume(i, outcome) ==
    LET user_id == tasks[i].user_id
    IN  /\ tasks[i].pc = "get"
        /\ quota' = IF outcome \in Responded
                    THEN IncrementUsage(quota, user_id, 1).quota
                    ELSE quota
        /\ tasks' = [tasks EXCEPT ![i].pc = "check"]
        /\ qRet' = [op |-> tasks[i].op, user_id |-> user_id, amount |-> 1,
                    value |-> outcome, before |-> quota, called |-> TRUE,
                    result |-> MapsResult(quota', tasks[i].op, user_id, outcome)]
        /\ UNCHANGED <<now, running, limiterVars, span, bucketVars, pairVars, appVars>>

NextMaps ==
    \/ \E i \in 1..MaxTasks : MapsBegin(i)
    \/ \E i \in 1..MaxTasks, outcome \in Outcomes : MapsResume(i, outcome)

SpecMaps == InitMaps /\ [][NextMaps]_vars

(***************************************************************************)
(* The limiter and the quota tracker called with any key, the empty string *)
(* among them                                                              *)
(***************************************************************************)
CoreKeys == {<<>>, <<"A">>}
CoreInstants == {0, 1, 3601}

InitCore ==
    /\ now = 0
    /\ \E k \in LimiterConfigs : limiter = NewRateLimiter(k[1], k[2], k[3], 0)
    /\ quota = NewQuotaTracker(1)
    /\ qRet = NoQuotaCall
    /\ IdleLimiter
    /\ IdleBucket
    /\ IdlePair
    /\ IdleApp
    /\ IdleTasks

CoreIsAllowed(client_id) ==
    LET r == IsAllowedOp(limiter, client_id, now)
    IN  /\ limiter' = r.limiter
        /\ ret' = r.ret
        /\ UNCHANGED <<now, burst, span, bucketVars, pairVars, appVars, quotaVars, taskVars>>

NextCore ==
    \/ \E client_id \in CoreKeys : CoreIsAllowed(client_id)
    \/ QCheckQuota(<<>>)
    \/ \E amount \in {-1, 1} : QIncrementUsage(<<>>, amount)
    \/ QGetRemaining(<<>>)
    \/ QResetUser(<<>>)
    \/ QResetAll
    \/ \E t \in CoreInstants : t > now /\ Tick(t - now)

SpecCore == InitCore /\ [][NextCore]_vars

(***************************************************************************)
(* Limiters built from several configurations, among them the one of the   *)
(* example: requests_per_window = 5, burst_multiplier = 1.5                 *)
(***************************************************************************)
\* <<requests_per_window, window_seconds, burst_multiplier>>; no two share
\* requests_per_window and window_seconds
ConfigShapes == { <<5, 10, <<3, 2>>>>, <<2, 5, <<3, 2>>>>, <<3, 7, <<1, 1>>>>,
                  <<1, 3600, <<5, 2>>>> }

ConfigInstants == {0, 2, 7}

\* the arguments the limiter L was built with (the code keeps
\* requests_per_window and window_seconds, not burst_multiplier)
ConfigOf(L) ==
    CHOOSE k \in ConfigShapes :
        k[1] = L.requests_per_window /\ k[2] = L.window_seconds

InitConfig ==
    /\ now = 0
    /\ \E k \in ConfigShapes : limiter = NewRateLimiter(k[1], k[2], k[3], 0)
    /\ IdleLimiter
    /\ IdleBucket
    /\ IdlePair
    /\ IdleApp
    /\ IdleQuota
    /\ IdleTasks

NextConfig ==
    \/ \E c \in Clients : IsAllowed(c)
    \/ \E t \in ConfigInstants : t > now /\ Tick(t - now)

SpecConfig == InitConfig /\ [][NextConfig]_vars

(***************************************************************************)
(* A denial followed up: span takes the denied client, the instant its     *)
(* retry_after names and the admissions of the client since the denial     *)
(***************************************************************************)
RetryInstants == {0, 2, 3, 1801, 3601, 3602}

\* note the denial is_allowed has just returned
NoteDenial ==
    /\ span = NoSpan
    /\ ret.at = now
    /\ ~ret.allowed
    /\ span' = [client |-> ret.client_id, start |-> ret.at + ret.retry_after,
                admitted |-> 0]
    /\ UNCHANGED <<now, bucketVars, limiterVars, pairVars, appVars, quotaVars, taskVars>>

NextRetry ==
    \/ \E c \in Clients : IsAllowed(c)
    \/ NoteDenial
    \/ \E t \in RetryInstants : t > now /\ Tick(t - now)

SpecRetry == Init /\ [][NextRetry]_vars

(***************************************************************************)
(* A request to /api/maps/places/search from the middleware to the Maps    *)
(* API: the middleware picks the key of the rate limit, the route the      *)
(* user_id of the quota.  The middleware is built with the default         *)
(* exclude_paths, so that the path is rate limited.                        *)
(***************************************************************************)
Anonymous == <<"a", "n", "o", "n", "y", "m", "o", "u", "s">>

\* user_id of the routes
QuotaUserId(request) ==
    IF request.client.present THEN request.client.host ELSE Anonymous

SearchRequests ==
    [path : {PathPlacesSearch},
     forwarded : {<<>>, <<"A">>},
     client : {[present |-> TRUE, host |-> h] : h \in Hosts}
                \cup {[present |-> FALSE, host |-> <<>>]}]

\* the outcomes of the external call tried in these runs
SearchOutcomes == {"ok", "timeout"}

InitKeys ==
    /\ now = 0
    /\ limiter = NewRateLimiter(1, 5, <<2, 1>>, 0)
    /\ middleware = NewMiddleware(<<>>)
    /\ resp = NoResp
    /\ quota = NewQuotaTracker(1)
    /\ qRet = NoQuotaCall
    /\ IdleLimiter
    /\ IdleBucket
    /\ IdlePair
    /\ IdleTasks

\* dispatch and, for a request that is admitted, the route search_places
\* with the call of MapsService.search_places in it
HandleSearch(request, outcome) ==
    LET d == DispatchOp(middleware, limiter, ret, request, now)
        user_id == QuotaUserId(request)
        c == CheckQuota(quota, user_id)
        refusal == QuotaRefusal(c.quota, "search_places", user_id)
        counted == IF outcome \in Responded
                   THEN IncrementUsage(c.quota, user_id, 1).quota
                   ELSE c.quota
    IN  /\ limiter' = d.limiter
        /\ ret' = d.ret
        /\ resp' = d.resp
        /\ IF ~d.resp.reached
           THEN UNCHANGED quotaVars
           ELSE IF ~c.value
                THEN /\ quota' = refusal.quota
                     /\ qRet' = [op |-> "search_places", user_id |-> user_id,
                                 amount |-> 0, value |-> "refused", before |-> quota,
                                 called |-> refusal.called, result |-> refusal.result]
                ELSE /\ quota' = counted
                     /\ qRet' = [op |-> "search_places", user_id |-> user_id,
                                 amount |-> 1, value |-> outcome, before |-> quota,
                                 called |-> TRUE,
                                 result |-> MapsResult(counted, "search_places",
                                                       user_id, outcome)]
        /\ UNCHANGED <<now, middleware, bucketVars, burst, span, pairVars, taskVars>>

NextKeys ==
    \E request \in SearchRequests, outcome \in SearchOutcomes :
        HandleSearch(request, outcome)

SpecKeys == InitKeys /\ [][NextKeys]_vars

(***************************************************************************)
(* Properties                                                              *)
(***************************************************************************)
\* C1: after every call of consume or time_until_available on a bucket, at
\* non-decreasing clock readings, 0 <= tokens <= capacity
TokensWithinCapacity ==
    /\ 0 <= tb.tokens
    /\ tb.tokens <= tb.capacity * Scale(tb)

\* a call that found the bucket full again after time had passed
RefilledToCapacity ==
    /\ tbRet.op = "time_until_available"
    /\ tb.last_update > 0
    /\ tb.tokens = tb.capacity * Scale(tb)

\* C2: of the consume(1) calls made on a fresh bucket of capacity C with no
\* time elapsing, the first C return true and the (C+1)-th returns false
BurstAdmission ==
    tbRet.nth >= 1 => (tbRet.ok <=> tbRet.nth <= tb.capacity)

\* the (C+1)-th call of the streak, denied
BurstDenied ==
    /\ tbRet.nth = tb.capacity + 1
    /\ ~tbRet.ok

\* C3: a consume(1) made t seconds after a consume took the last token, with
\* no call in between, succeeds iff t >= 1/rate, that is iff t * num >= den
RefillLinearity ==
    (tbRet.op = "consume" /\ tbRet.n = 1 /\ tbRet.waited >= 0)
        => (tbRet.ok <=> tbRet.waited * tb.rate[1] >= tb.rate[2])

\* a consume(1) that succeeded at the first whole second at which it could
SucceededAfterWaiting ==
    /\ tbRet.op = "consume" /\ tbRet.n = 1
    /\ tbRet.waited >= 1
    /\ tbRet.ok
    /\ (tbRet.waited - 1) * tb.rate[1] < tb.rate[2]

\* C4: a call of is_allowed for a key without a bucket creates the bucket
\* full (so capacity - 1 tokens remain after the call) and is admitted; every
\* admitted call returns (True, 0)
FirstRequestAdmitted ==
    ret.at >= 0 =>
        /\ ret.created => ret.allowed
        /\ (ret.created /\ ret.client_id \in DOMAIN limiter.buckets) =>
               limiter.buckets[ret.client_id].tokens
                   = (limiter.capacity - 1) * limiter.window_seconds
        /\ ret.allowed => ret.retry_after = 0

\* a bucket created by a call made after the limiter's construction
CreatedLater ==
    /\ ret.at > 0
    /\ ret.created
    /\ ret.allowed

\* C5 as claimed: a denied call returns ceil(time_until_available(1)) + 1
RetryAfterIsCeilPlusOne ==
    (ret.at >= 0 /\ ~ret.allowed)
        => ret.retry_after = CeilOf(ret.wait[1], ret.wait[2]) + 1

\* C5 amended: a denied call returns floor(time_until_available(1)) + 1,
\* which is ceil(w) + 1 when the wait w is a whole number of seconds and
\* ceil(w) when it is not; w is (1 - tokens) / rate of the caller's bucket
RetryAfterIsFloorPlusOne ==
    (ret.at >= 0 /\ ~ret.allowed) =>
        /\ ret.retry_after = IF ret.wait[1] % ret.wait[2] = 0
                             THEN CeilOf(ret.wait[1], ret.wait[2]) + 1
                             ELSE CeilOf(ret.wait[1], ret.wait[2])
        /\ ret.client_id \in DOMAIN limiter.buckets =>
               LET b == limiter.buckets[ret.client_id]
               IN  /\ b.tokens < Scale(b)
                   /\ ret.wait[1] * b.rate[1] = (Scale(b) - b.tokens) * ret.wait[2]

\* a denied call whose wait is not a whole number of seconds
DeniedWithFractionalWait ==
    /\ ret.at >= 0
    /\ ~ret.allowed
    /\ ret.wait[1] % ret.wait[2] # 0

\* C6: with requests_per_window = 100, window_seconds = 3600 and
\* burst_multiplier = 1.5, of the calls a client makes with no time elapsing
\* the first 150 return (True, 0) and the 151st returns (False, 37)
ExampleBurst ==
    ret.at >= 0 =>
        LET n == burst[ret.client_id]
        IN  /\ (n >= 1 /\ n <= 150) => (ret.allowed /\ ret.retry_after = 0)
            /\ n = 151 => (~ret.allowed /\ ret.retry_after = 37)

\* the 151st call of a client
Call151 ==
    /\ ret.at >= 0
    /\ burst[ret.client_id] = 151
    /\ ~ret.allowed

\* C7: what the observer's call shows (admitted or not, retry_after, tokens
\* left) is the same whether or not the other client calls is_allowed
ObserverUnaffected ==
    seen.main = seen.solo

\* C8: over any span of T seconds, the requests admitted for a key number at
\* most capacity + rate * T
RateBound ==
    span.start >= 0 =>
        span.admitted * limiter.window_seconds
            <= limiter.capacity * limiter.window_seconds
               + limiter.requests_per_window * (now - span.start)

\* a step in which is_allowed, and so _maybe_cleanup, was called
CallStep ==
    limiter' # limiter \/ ret' # ret

IdleFor(c) == now - limiter.buckets[c].last_update

\* C9 as claimed: the next _maybe_cleanup call removes every bucket idle for
\* longer than cleanup_interval and no bucket touched within it
IdleEvictionOnNextCall ==
    [][CallStep =>
         \A c \in DOMAIN limiter.buckets :
             /\ IdleFor(c) > limiter.cleanup_interval => c \in ret'.swept
             /\ IdleFor(c) <= limiter.cleanup_interval
                    => (c \notin ret'.swept /\ c \in DOMAIN limiter'.buckets)]_vars

\* C9 amended: a _maybe_cleanup call made at least cleanup_interval after
\* last_cleanup removes every bucket idle for longer than cleanup_interval;
\* no call removes a bucket touched within cleanup_interval of it
IdleEvictionWhenDue ==
    [][CallStep =>
         \A c \in DOMAIN limiter.buckets :
             /\ (now - limiter.last_cleanup >= limiter.cleanup_interval
                   /\ IdleFor(c) > limiter.cleanup_interval) => c \in ret'.swept
             /\ IdleFor(c) <= limiter.cleanup_interval
                    => (c \notin ret'.swept /\ c \in DOMAIN limiter'.buckets)]_vars

\* a sweep that removed a bucket and left another, touched before it, in place
SweptOneKeptOne ==
    /\ ret.swept # {}
    /\ limiter.last_cleanup = ret.at
    /\ \E c \in DOMAIN limiter.buckets : limiter.buckets[c].last_update < ret.at

BusinessPaths == {PathChat, PathPlacesSearch}

\* C10: in the application of main.py a request to a business endpoint goes
\* through is_allowed with the request's client key, and one that is denied
\* is answered 429 without reaching the endpoint
AdmissionEnforced ==
    resp.request.path \in BusinessPaths =>
        /\ resp.checked
        /\ resp.client_id = GetClientId(resp.request)
        /\ resp.status = 429 <=> ~resp.reached

\* C11: every response to a request the middleware rate limits, admitted or
\* denied, carries X-RateLimit-Limit and X-RateLimit-Window, as does the
\* response to GET /api/maps/config in the application of main.py
RateLimitHeadersPresent ==
    (resp.status # 0 /\ ~Excluded(NewMiddleware(<<>>), resp.request.path))
        => resp.limit_headers

\* the number a string of digits writes
RECURSIVE DigitsValue(_)
DigitsValue(s) ==
    IF s = <<>> THEN 0
    ELSE 10 * DigitsValue(SubSeq(s, 1, Len(s) - 1))
         + (CHOOSE d \in 0..9 : DigitChars[d + 1] = s[Len(s)])

ClientKeyFromRequest ==
    resp.checked =>
        /\ resp.client_id # <<>>
        /\ resp.request.forwarded # <<>>
               => resp.client_id = Strip(FirstField(resp.request.forwarded))
        /\ (resp.request.forwarded = <<>> /\ resp.request.client.present)
               => resp.client_id = resp.request.client.host

\* the tasks of a key that were admitted
AdmittedTasks(key) ==
    { i \in DOMAIN tasks : tasks[i].key = key /\ tasks[i].pc \in {"call_next", "done"} }

\* C13: however the requests of one key interleave, with no time elapsing
\* at most as many are admitted as the bucket held tokens, and no token
\* count falls below 0
NoDoubleSpend ==
    /\ \A key \in Clients : Cardinality(AdmittedTasks(key)) <= limiter.capacity
    /\ \A key \in DOMAIN limiter.buckets : limiter.buckets[key].tokens >= 0

\* every token of a key spent and a further request of the key denied
SpentAndDenied ==
    \E key \in Clients :
        /\ Cardinality(AdmittedTasks(key)) = limiter.capacity
        /\ \E i \in DOMAIN tasks : tasks[i].key = key /\ tasks[i].pc = "denied"

\* C14: check_quota returns true exactly when the recorded usage of the key
\* (0 when absent) is below daily_limit, and leaves the tracker as it was
CheckQuotaContract ==
    qRet.op = "check_quota" =>
        /\ quota = qRet.before
        /\ qRet.value <=>
               UsageOf(qRet.before, qRet.user_id) < qRet.before.daily_limit

\* a check refused at the limit, and no entry made for an absent key
RefusedAtLimit ==
    /\ qRet.op = "check_quota"
    /\ qRet.value = FALSE
    /\ UsageOf(quota, qRet.user_id) = quota.daily_limit
    /\ \E k \in Clients : k \notin DOMAIN quota.usage

\* C15: after each increment_usage the remaining quota of the key is
\* smaller than before or 0, and never negative
QuotaMonotone ==
    qRet.op = "increment_usage" =>
        LET before == GetRemaining(qRet.before, qRet.user_id).value
            after == GetRemaining(quota, qRet.user_id).value
        IN  /\ after < before \/ after = 0
            /\ after >= 0

\* C16: no recorded usage is negative
UsageNonNegative ==
    \A k \in DOMAIN quota.usage : quota.usage[k] >= 0

\* C17: reset_user sets the usage of its key to 0 and leaves every other
\* key alone, reset_all leaves every key at 0, and a reset key passes
\* check_quota with daily_limit remaining
ResetContract ==
    LET fresh(k) == /\ UsageOf(quota, k) = 0
                    /\ CheckQuota(quota, k).value
                    /\ GetRemaining(quota, k).value = quota.daily_limit
    IN  /\ qRet.op = "reset_user" =>
               /\ fresh(qRet.user_id)
               /\ \A k \in Clients \ {qRet.user_id} :
                      /\ k \in DOMAIN quota.usage <=> k \in DOMAIN qRet.before.usage
                      /\ UsageOf(quota, k) = UsageOf(qRet.before, k)
        /\ qRet.op = "reset_all" => \A k \in Clients : fresh(k)
        /\ qRet.op \in {"reset_user", "reset_all"} =>
               quota.daily_limit = qRet.before.daily_limit

\* a key over its limit reset while another key keeps its usage
ResetOneOfTwo ==
    /\ qRet.op = "reset_user"
    /\ UsageOf(qRet.before, qRet.user_id) > quota.daily_limit
    /\ \E k \in Clients \ {qRet.user_id} : UsageOf(quota, k) > 0

\* the requests of a key that can be in flight together
SlotsOf(key) == { i \in DOMAIN tasks : tasks[i].user_id = key }

MapsOpSet == { MapsOps[n] : n \in DOMAIN MapsOps }

\* C18: with N requests of a key running together through check, external
\* call and increment, the usage of the key stays within daily_limit - 1 + N
OvershootBounded ==
    \A key \in Clients :
        UsageOf(quota, key) <= quota.daily_limit - 1 + Cardinality(SlotsOf(key))

\* the usage of a key at the bound, above its limit
OvershootReached ==
    \E key \in Clients :
        /\ Cardinality(SlotsOf(key)) >= 2
        /\ UsageOf(quota, key) = quota.daily_limit - 1 + Cardinality(SlotsOf(key))

\* C19: every external call started after _check_quota passed adds exactly
\* 1 to the usage of its user, whatever the call ended in
ChargedOnAttempt ==
    (qRet.op \in MapsOpSet /\ qRet.value \in Outcomes) =>
        UsageOf(quota, qRet.user_id) = UsageOf(qRet.before, qRet.user_id) + 1

\* C21: is_allowed and the QuotaTracker operations raise nothing and
\* return a result for every key, the empty string included: is_allowed a
\* pair of a boolean and a number of seconds, at least 1 on a denial,
\* check_quota a boolean, increment_usage the new total, get_remaining a
\* number that is not negative
NoException ==
    /\ ret.at >= 0 =>
           /\ ~ret.raised
           /\ ret.allowed \in BOOLEAN
           /\ IF ret.allowed THEN ret.retry_after = 0 ELSE ret.retry_after >= 1
           /\ ret.client_id \in DOMAIN limiter.buckets
    /\ qRet.op = "check_quota" => qRet.value \in BOOLEAN
    /\ qRet.op = "increment_usage" => qRet.value = UsageOf(quota, qRet.user_id)
    /\ qRet.op = "get_remaining" => qRet.value >= 0

\* the empty key denied by the limiter and refused by the quota tracker
EmptyKeyDenied ==
    /\ ret.at >= 0
    /\ ret.client_id = <<>>
    /\ ~ret.allowed
    /\ qRet.op = "check_quota"
    /\ qRet.user_id = <<>>
    /\ qRet.value = FALSE

\* C22: every key in the bucket map was last touched no earlier than
\* cleanup_interval before last_cleanup
TouchedSinceSweep ==
    \A c \in DOMAIN limiter.buckets :
        limiter.buckets[c].last_update >= limiter.last_cleanup - limiter.cleanup_interval

\* a bucket that a sweep kept, touched exactly cleanup_interval before it
KeptAtTheEdge ==
    /\ limiter.last_cleanup > 0
    /\ \E c \in DOMAIN limiter.buckets :
          limiter.buckets[c].last_update = limiter.last_cleanup - limiter.cleanup_interval

\* C23 as claimed: every bucket the limiter creates has rate
\* requests_per_window / window_seconds and capacity
\* requests_per_window * burst_multiplier
CapacityIsProduct ==
    \A c \in DOMAIN limiter.buckets :
        LET b == limiter.buckets[c]
            k == ConfigOf(limiter)
        IN  /\ b.rate[1] * k[2] = k[1] * b.rate[2]
            /\ b.capacity * k[3][2] = k[1] * k[3][1]

\* C23 amended: every bucket the limiter creates has rate
\* requests_per_window / window_seconds and capacity
\* requests_per_window * burst_multiplier rounded down to a whole number
CapacityIsProductFloor ==
    \A c \in DOMAIN limiter.buckets :
        LET b == limiter.buckets[c]
            k == ConfigOf(limiter)
        IN  /\ b.rate[1] * k[2] = k[1] * b.rate[2]
            /\ b.capacity * k[3][2] <= k[1] * k[3][1]
            /\ k[1] * k[3][1] < (b.capacity + 1) * k[3][2]
            /\ b.tokens <= b.capacity * Scale(b)

\* a bucket of the limiter with requests_per_window 5 and multiplier 1.5,
\* its capacity 7
CapacityTruncated ==
    /\ limiter.requests_per_window = 5
    /\ \E c \in DOMAIN limiter.buckets :
          /\ limiter.buckets[c].capacity = 7
          /\ limiter.buckets[c].capacity * 2 < 5 * 3

\* C24: consume(n) refills to min(capacity, tokens + elapsed * rate) and
\* sets last_update to the clock reading; it returns true and takes n when
\* the refilled count is at least n, and otherwise returns false and takes
\* nothing, so that a denied call does not postpone the instant at which n
\* tokens are there
ConsumeContract ==
    [][(now' = now /\ tbRet'.op = "consume") =>
         LET n == tbRet'.n * Scale(tb)
             grown == tb.tokens + (now - tb.last_update) * tb.rate[1]
             refilled == Min(tb.capacity * Scale(tb), grown)
         IN  /\ tb'.last_update = now
             /\ tb'.rate = tb.rate /\ tb'.capacity = tb.capacity
             /\ tbRet'.ok <=> refilled >= n
             /\ tb'.tokens = IF tbRet'.ok THEN refilled - n ELSE refilled
             /\ (~tbRet'.ok /\ tbRet'.n <= tb.capacity) =>
                    now * tb.rate[1] + (n - tb'.tokens)
                        = tb.last_update * tb.rate[1] + (n - tb.tokens)]_vars

\* a denied consume made after time had passed, which left the bucket with
\* what the refill had brought
DeniedKeepsTokens ==
    /\ tbRet.op = "consume"
    /\ ~tbRet.ok
    /\ tb.tokens > 0
    /\ tb.last_update > 0

\* C25: time_until_available(n) refills and returns 0 when the refilled
\* count is at least n and (n - tokens) / rate otherwise, which is 1 / rate
\* for an empty bucket and n = 1; it takes no token
WaitContract ==
    [][(now' = now /\ tbRet'.op = "time_until_available") =>
         LET n == tbRet'.n * Scale(tb)
             grown == tb.tokens + (now - tb.last_update) * tb.rate[1]
             refilled == Min(tb.capacity * Scale(tb), grown)
             value == tbRet'.value
         IN  /\ tb'.tokens = refilled
             /\ tb'.last_update = now
             /\ IF refilled >= n
                THEN value[1] = 0
                ELSE value[1] * tb.rate[1] = (n - refilled) * value[2]
             /\ (refilled = 0 /\ tbRet'.n = 1) =>
                    value[1] * tb.rate[1] = tb.rate[2] * value[2]]_vars

\* the wait for one token reported on an empty bucket
WaitOnEmptyBucket ==
    /\ tbRet.op = "time_until_available"
    /\ tbRet.n = 1
    /\ tb.tokens = 0
    /\ tbRet.value[1] * tb.rate[1] = tb.rate[2] * tbRet.value[2]

\* C26: a _maybe_cleanup call made less than cleanup_interval after
\* last_cleanup leaves the bucket map and last_cleanup as they are; a call
\* made later removes exactly the keys idle for longer than
\* cleanup_interval, leaves every other bucket as it is and sets
\* last_cleanup to the clock reading.  (_maybe_cleanup runs at the start
\* of is_allowed, which then touches the caller's bucket.)
SweepOncePerInterval ==
    [][CallStep =>
         LET due == now - limiter.last_cleanup >= limiter.cleanup_interval
             stale == { c \in DOMAIN limiter.buckets :
                          IdleFor(c) > limiter.cleanup_interval }
             removed == IF due THEN stale ELSE {}
             caller == ret'.client_id
         IN  /\ ret'.swept = removed
             /\ limiter'.last_cleanup = IF due THEN now ELSE limiter.last_cleanup
             /\ DOMAIN limiter'.buckets
                    = ((DOMAIN limiter.buckets) \ removed) \cup {caller}
             /\ \A c \in (DOMAIN limiter.buckets) \ (removed \cup {caller}) :
                    limiter'.buckets[c] = limiter.buckets[c]]_vars

\* a call made before the next sweep was due, which left in place a bucket
\* idle for longer than cleanup_interval
StaleKeptUntilDue ==
    /\ ret.at = now
    /\ limiter.last_cleanup > 0
    /\ limiter.last_cleanup < now
    /\ \E c \in DOMAIN limiter.buckets : IdleFor(c) > limiter.cleanup_interval

\* C27: after is_allowed denied a key at time t with retry_after r, a call
\* for the key at any time >= t + r is admitted when no request of the key
\* was admitted in between
RetryAfterSufficient ==
    [][(CallStep /\ span.start >= 0 /\ ret'.client_id = span.client
          /\ now >= span.start /\ span.admitted = 0)
         => ret'.allowed]_vars

\* the retry made at the very instant the denial named, admitted, from the
\* bucket that had denied
RetriedOnTime ==
    /\ span.start >= 0
    /\ ret.client_id = span.client
    /\ ret.at = span.start
    /\ ret.allowed
    /\ ~ret.created
    /\ span.admitted = 1

\* C28: once an is_allowed call, for any key, made 2 * cleanup_interval or
\* more after a key was last touched has returned, the bucket the key had
\* is gone from the map; the passing of time alone removes no bucket
StalenessBounded ==
    [][/\ CallStep =>
            \A c \in DOMAIN limiter.buckets :
                IdleFor(c) >= 2 * limiter.cleanup_interval =>
                    /\ c \in ret'.swept
                    /\ c \in DOMAIN limiter'.buckets =>
                           (c = ret'.client_id /\ ret'.created)
       /\ now' # now => limiter'.buckets = limiter.buckets]_vars

\* a sweep made 2 * cleanup_interval or more after the limiter was built,
\* which reaped a bucket and kept one touched since the sweep before it
ReapedWithinTwoIntervals ==
    /\ ret.swept # {}
    /\ ret.at >= 2 * limiter.cleanup_interval
    /\ \E c \in DOMAIN limiter.buckets :
          /\ c \notin ret.swept
          /\ limiter.buckets[c].last_update < ret.at
          /\ limiter.buckets[c].last_update >= limiter.cleanup_interval

\* C29: a method that finds check_quota false starts no external call,
\* leaves the usage as it is and reports failure: search_places a
\* SearchResponse with success False and quota_remaining 0, the others None
RefusedWithoutCall ==
    [][/\ \A i \in DOMAIN tasks :
            (tasks[i].pc = "check" /\ tasks'[i].pc = "get")
                => CheckQuota(quota, tasks[i].user_id).value
       /\ (qRet' # qRet /\ qRet'.value = "refused") =>
            /\ ~CheckQuota(quota, qRet'.user_id).value
            /\ ~qRet'.called
            /\ tasks' = tasks
            /\ quota' = quota
            /\ qRet'.result =
                   IF qRet'.op = "search_places"
                   THEN [kind |-> "SearchResponse", success |-> FALSE,
                         quota_remaining |-> 0]
                   ELSE [kind |-> "None", success |-> FALSE,
                         quota_remaining |-> -1]]_vars

\* get_place_details refused for a user over the limit while another
\* request of the user is still awaiting the Maps API
RefusedWhileInFlight ==
    /\ qRet.op = "get_place_details"
    /\ qRet.value = "refused"
    /\ UsageOf(quota, qRet.user_id) >= quota.daily_limit
    /\ \E i \in DOMAIN tasks :
          tasks[i].user_id = qRet.user_id /\ tasks[i].pc = "get"

\* C30: of two requests that both passed the rate limit and reached the
\* route, the quota usage is tracked under one user_id exactly when their
\* rate limit was taken from one bucket
QuotaKeyIsRateKey ==
    [][(resp.checked /\ resp.reached /\ resp'.checked /\ resp'.reached) =>
          (qRet'.user_id = qRet.user_id <=> resp'.client_id = resp.client_id)]_vars

====
